---- MODULE Spec2Model ----
(***************************************************************************)
(* Model of src/insights.py: the keyword classifier identify_entity and    *)
(* the event merger deduplicate_events; and of process_household in        *)
(* src/batch_analysis.py with the two functions it calls.                  *)
(*                                                                         *)
(* Text is a sequence of one-character strings, so that lower(), strip(),  *)
(* the `in` substring test and the " | " join are computed, not assumed.   *)
(* Times and the threshold are integers (whole seconds).                   *)
(***************************************************************************)
EXTENDS Integers, Sequences, FiniteSets, TLC

VARIABLES
    df,              \* deduplicate_events: the caller's segment sequence
    time_threshold,  \* deduplicate_events: the gap threshold argument
    pc,              \* deduplicate_events: "idle" | "start" | "loop" | "done"
    sorted_df,       \* the local df after sort_values/reset_index
    i,               \* number of rows iterrows() has delivered so far
    current_event,   \* <<>> for None, <<event>> for an open accumulator
    merged_events,   \* the list of emitted events
    result,          \* the returned frame, as a sequence of row records
    description,     \* identify_entity: its argument
    cpc,             \* identify_entity: "idle" | "call" | "done"
    classified,      \* identify_entity: <<>> before the call, <<label, icon>> after
    fseconds,        \* format_time: its argument
    fpc,             \* format_time: "idle" | "call" | "done"
    display,         \* format_time: the string it returned
    calls,           \* two calls of deduplicate_events: the locals of each
    heap,            \* two calls: the list objects, by the call that made them
    household_id,    \* process_household: its first argument
    days,            \* process_household: the list of day numbers
    files,           \* the day numbers whose video file exists in video_dir
    bpc,             \* process_household: "idle" | "loop" | "generate" |
                     \*   "raised" | "done"
    day_idx,         \* number of days the for loop has finished with
    video_id,        \* what upload_video returned for the current day
    all_chapters,    \* the list of chapter dictionaries so far
    api_calls,       \* the calls made on the Twelve Labs client, in order
    returned         \* what process_household returned

vars == <<df, time_threshold, pc, sorted_df, i, current_event, merged_events,
          result, description, cpc, classified, fseconds, fpc, display,
          calls, heap, household_id, days, files, bpc, day_idx, video_id,
          all_chapters, api_calls, returned>>

dedupVars == <<df, time_threshold, pc, sorted_df, i, current_event,
               merged_events, result>>

classifyVars == <<description, cpc, classified>>

formatVars == <<fseconds, fpc, display>>

pairVars == <<calls, heap>>

batchVars == <<household_id, days, files, bpc, day_idx, video_id,
               all_chapters, api_calls, returned>>

----------------------------------------------------------------------------
(* Bounds of the model *)

MaxSegs == 3

MaxTime == 2

MaxThreshold == 2

MaxFrags == 4

MaxSeconds == 6100

MaxPairSegs == 2

MaxPairTime == 1

MaxDays == 2

MaxChapters == 2

----------------------------------------------------------------------------
(* Text *)

UpperCase ==
    <<"A","B","C","D","E","F","G","H","I","J","K","L","M",
      "N","O","P","Q","R","S","T","U","V","W","X","Y","Z">>

LowerCase ==
    <<"a","b","c","d","e","f","g","h","i","j","k","l","m",
      "n","o","p","q","r","s","t","u","v","w","x","y","z">>

Whitespace == {" ", "\t", "\n"}

LowerChar(c) ==
    IF \E k \in 1..Len(UpperCase) : UpperCase[k] = c
    THEN LowerCase[CHOOSE k \in 1..Len(UpperCase) : UpperCase[k] = c]
    ELSE c

\* str.lower()
Lower(s) == [k \in 1..Len(s) |-> LowerChar(s[k])]

\* str.strip(): drops leading and trailing whitespace
Strip(s) ==
    LET keep == {k \in 1..Len(s) : s[k] \notin Whitespace}
    IN  IF keep = {} THEN <<>>
        ELSE LET lo == CHOOSE k \in keep : \A m \in keep : k <= m
                 hi == CHOOSE k \in keep : \A m \in keep : k >= m
             IN  SubSeq(s, lo, hi)

\* `sub in s` on Python strings
Contains(s, sub) ==
    \E k \in 0..(Len(s) - Len(sub)) : SubSeq(s, k + 1, k + Len(sub)) = sub

normalize_text(text) == Strip(Lower(text))

----------------------------------------------------------------------------
(* Keywords and labels of identify_entity *)

KwBlackJacket == <<"b","l","a","c","k"," ","j","a","c","k","e","t">>

KwPlate == <<"p","l","a","t","e">>

KwMan == <<"m","a","n">>

KwHoodie == <<"h","o","o","d","i","e">>

KwWhiteBag == <<"w","h","i","t","e"," ","b","a","g">>

KwBag == <<"b","a","g">>

KwPhoneCase == <<"p","h","o","n","e"," ","c","a","s","e">>

Staff == <<"Staff (Black Jacket)", "icon:office-worker">>

Delivery == <<"Delivery (Hoodie)", "icon:truck">>

Visitor == <<"Visitor (Phone)", "icon:phone">>

Unknown == <<"Unknown", "icon:question">>

Labels == {Staff, Delivery, Visitor, Unknown}

\* Mutant of identify_entity: the hoodie rule is tested before the jacket rule
identify_entity_hoodie_first(text) ==
    LET desc == normalize_text(text)
    IN  IF Contains(desc, KwHoodie)
           /\ (Contains(desc, KwWhiteBag) \/ Contains(desc, KwBag))
        THEN Delivery
        ELSE IF Contains(desc, KwBlackJacket)
                /\ (Contains(desc, KwPlate) \/ Contains(desc, KwMan))
        THEN Staff
        ELSE IF Contains(desc, KwPhoneCase)
        THEN Visitor
        ELSE Unknown

\* Mutant of identify_entity: the final return is missing, so a text that
\* matches no rule falls off the end and yields no pair
identify_entity_no_default(text) ==
    LET desc == normalize_text(text)
    IN  IF Contains(desc, KwBlackJacket)
           /\ (Contains(desc, KwPlate) \/ Contains(desc, KwMan))
        THEN Staff
        ELSE IF Contains(desc, KwHoodie)
                /\ (Contains(desc, KwWhiteBag) \/ Contains(desc, KwBag))
        THEN Delivery
        ELSE IF Contains(desc, KwPhoneCase)
        THEN Visitor
        ELSE <<>>

\* Mutant of identify_entity: the hoodie rule keeps only the narrow test for
\* "white bag"
identify_entity_white_bag_only(text) ==
    LET desc == normalize_text(text)
    IN  IF Contains(desc, KwBlackJacket)
           /\ (Contains(desc, KwPlate) \/ Contains(desc, KwMan))
        THEN Staff
        ELSE IF Contains(desc, KwHoodie) /\ Contains(desc, KwWhiteBag)
        THEN Delivery
        ELSE IF Contains(desc, KwPhoneCase)
        THEN Visitor
        ELSE Unknown

identify_entity(text) ==
    LET desc == normalize_text(text)
    IN  IF Contains(desc, KwBlackJacket)
           /\ (Contains(desc, KwPlate) \/ Contains(desc, KwMan))
        THEN Staff
        ELSE IF Contains(desc, KwHoodie)
                /\ (Contains(desc, KwWhiteBag) \/ Contains(desc, KwBag))
        THEN Delivery
        ELSE IF Contains(desc, KwPhoneCase)
        THEN Visitor
        ELSE Unknown

----------------------------------------------------------------------------
(* Inputs of deduplicate_events *)

None == <<>>

DescStaffMan == <<"M","a","n"," ","b","l","a","c","k"," ","j","a","c","k","e","t">>

DescStaffPlate == <<"b","l","a","c","k"," ","j","a","c","k","e","t"," ","p","l","a","t","e">>

DescDelivery == <<"h","o","o","d","i","e"," ","b","a","g">>

DescWalking == <<"w","a","l","k","i","n","g">>

DedupDescriptions == {DescStaffMan, DescStaffPlate, DescDelivery, DescWalking}

Times == 0..MaxTime

Thresholds == 0..MaxThreshold

\* A row of the input frame. end_time < start_time is representable: nothing
\* in the caller's frame rules it out.
Segments ==
    [start_time : Times, end_time : Times, ai_description : DedupDescriptions]

Frames == UNION {[1..n -> Segments] : n \in 0..MaxSegs}

----------------------------------------------------------------------------
(* Helpers of deduplicate_events *)

Max(a, b) == IF a >= b THEN a ELSE b

Delimiter == <<" ", "|", " ">>

\* Mutant of SortValues: sort_values(..., ascending=False)
SortValuesDescending(frame) ==
    {[k \in 1..Len(frame) |-> frame[p[k]]] :
        p \in {q \in Permutations(1..Len(frame)) :
                 \A a, b \in 1..Len(frame) :
                    a < b => frame[q[a]].start_time >= frame[q[b]].start_time}}

\* Mutant of SortValues: the sorted frame is not assigned back to df
SortValuesDiscarded(frame) == {frame}

\* df.sort_values('start_time').reset_index(drop=True): the default kind is
\* quicksort, which orders rows with equal keys arbitrarily; every ordering
\* of the rows that is non-decreasing in start_time is a possible outcome.
SortValues(frame) ==
    {[k \in 1..Len(frame) |-> frame[p[k]]] :
        p \in {q \in Permutations(1..Len(frame)) :
                 \A a, b \in 1..Len(frame) :
                    a < b => frame[q[a]].start_time <= frame[q[b]].start_time}}

\* identify_entity on the descriptions the frames are drawn from, tabulated
EntityOf == [d \in DedupDescriptions |-> identify_entity(d)]

\* row_data, lines 42-52
RowData(row) ==
    LET ent == EntityOf[row.ai_description]
    IN  [start_time     |-> row.start_time,
         end_time       |-> row.end_time,
         ai_description |-> row.ai_description,
         entity         |-> ent[1],
         icon           |-> ent[2],
         original_count |-> 1]

\* Mutant of MergeCriteria: the test for "Unknown" is missing
MergeCriteriaNoUnknownTest(row_data, cur, threshold) ==
    LET time_gap == row_data.start_time - cur.end_time
    IN  /\ row_data.entity = cur.entity
        /\ time_gap < threshold

\* Mutant of MergeCriteria: the entities are not compared
MergeCriteriaAnyEntity(row_data, cur, threshold) ==
    LET time_gap == row_data.start_time - cur.end_time
    IN  /\ row_data.entity # "Unknown"
        /\ time_gap < threshold

\* Mutant of MergeCriteria: <= in place of <
MergeCriteriaInclusive(row_data, cur, threshold) ==
    LET time_gap == row_data.start_time - cur.end_time
    IN  /\ row_data.entity = cur.entity
        /\ row_data.entity # "Unknown"
        /\ time_gap <= threshold

\* Mutant of MergeCriteria: the distance abs(time_gap) is compared, so a
\* row that overlaps the accumulator by the threshold or more is not merged
MergeCriteriaAbsGap(row_data, cur, threshold) ==
    LET time_gap == row_data.start_time - cur.end_time
    IN  /\ row_data.entity = cur.entity
        /\ row_data.entity # "Unknown"
        /\ (IF time_gap < 0 THEN 0 - time_gap ELSE time_gap) < threshold

\* Mutant of MergeCriteria: the gap is measured from the accumulator's
\* start_time
MergeCriteriaFromStart(row_data, cur, threshold) ==
    LET time_gap == row_data.start_time - cur.start_time
    IN  /\ row_data.entity = cur.entity
        /\ row_data.entity # "Unknown"
        /\ time_gap < threshold

\* the merge test of line 63
MergeCriteria(row_data, cur, threshold) ==
    LET time_gap == row_data.start_time - cur.end_time
    IN  /\ row_data.entity = cur.entity
        /\ row_data.entity # "Unknown"
        /\ time_gap < threshold

\* Mutant of MergeInto: original_count is not incremented
MergeIntoNoCount(cur, row_data) ==
    [cur EXCEPT !.end_time       = Max(cur.end_time, row_data.end_time),
                !.ai_description = cur.ai_description \o Delimiter
                                     \o row_data.ai_description]

\* Mutant of MergeInto: end_time is overwritten with the row's end_time
MergeIntoLastEnd(cur, row_data) ==
    [cur EXCEPT !.end_time       = row_data.end_time,
                !.ai_description = cur.ai_description \o Delimiter
                                     \o row_data.ai_description,
                !.original_count = cur.original_count + 1]

\* Mutant of MergeInto: start_time is overwritten with the row's start_time
MergeIntoLastStart(cur, row_data) ==
    [cur EXCEPT !.start_time     = row_data.start_time,
                !.end_time       = Max(cur.end_time, row_data.end_time),
                !.ai_description = cur.ai_description \o Delimiter
                                     \o row_data.ai_description,
                !.original_count = cur.original_count + 1]

\* Mutant of MergeInto: the row's description is put in front
MergeIntoPrepend(cur, row_data) ==
    [cur EXCEPT !.end_time       = Max(cur.end_time, row_data.end_time),
                !.ai_description = row_data.ai_description \o Delimiter
                                     \o cur.ai_description,
                !.original_count = cur.original_count + 1]

\* Mutant of MergeInto: end_time is left at the first row's end_time
MergeIntoKeepEnd(cur, row_data) ==
    [cur EXCEPT !.ai_description = cur.ai_description \o Delimiter
                                     \o row_data.ai_description,
                !.original_count = cur.original_count + 1]

\* the MERGE branch, lines 65-67
MergeInto(cur, row_data) ==
    [cur EXCEPT !.end_time       = Max(cur.end_time, row_data.end_time),
                !.ai_description = cur.ai_description \o Delimiter
                                     \o row_data.ai_description,
                !.original_count = cur.original_count + 1]

\* Mutant of LoopBody: PUSH & RESET resets without pushing
LoopBodyNoPush(cur, merged, row, threshold) ==
    LET row_data == RowData(row)
    IN  IF cur = None
        THEN <<(<<row_data>>), merged>>
        ELSE IF MergeCriteria(row_data, cur[1], threshold)
        THEN <<(<<MergeInto(cur[1], row_data)>>), merged>>
        ELSE <<(<<row_data>>), merged>>

\* One iteration of the for loop, lines 41-71, as a function of the loop
\* state: returns the new <<current_event, merged_events>>.
LoopBody(cur, merged, row, threshold) ==
    LET row_data == RowData(row)
    IN  IF cur = None
        THEN <<(<<row_data>>), merged>>
        ELSE IF MergeCriteria(row_data, cur[1], threshold)
        THEN <<(<<MergeInto(cur[1], row_data)>>), merged>>
        ELSE <<(<<row_data>>), Append(merged, cur[1])>>

\* Mutant of Flush: the open accumulator is not emitted after the loop
FlushNothing(cur, merged) == merged

\* Mutant of Flush: the open accumulator is emitted twice after the loop
FlushTwice(cur, merged) ==
    IF cur # None THEN Append(Append(merged, cur[1]), cur[1]) ELSE merged

\* lines 73-74
Flush(cur, merged) == IF cur # None THEN Append(merged, cur[1]) ELSE merged

DigitChars == <<"0","1","2","3","4","5","6","7","8","9">>

RECURSIVE Decimal(_)
Decimal(n) ==
    IF n < 10 THEN <<DigitChars[n + 1]>>
    ELSE Decimal(n \div 10) \o <<DigitChars[(n % 10) + 1]>>

\* Mutant of Format02d: the format spec :d, without the zero padding
Format02dNoPadding(n) ==
    IF n < 0 THEN <<"-">> \o Decimal(0 - n)
    ELSE Decimal(n)

\* the format spec :02d
Format02d(n) ==
    IF n < 0 THEN <<"-">> \o Decimal(0 - n)
    ELSE IF n < 10 THEN <<"0">> \o Decimal(n)
    ELSE Decimal(n)

\* format_time, lines 84-86: divmod floors, as \div and % do
format_time(seconds) ==
    Format02d(seconds \div 60) \o <<":">> \o Format02d(seconds % 60)

\* lines 77-89: the frame built from merged_events with its derived columns
ResultFrame(merged) ==
    [k \in 1..Len(merged) |->
        [start_time     |-> merged[k].start_time,
         end_time       |-> merged[k].end_time,
         ai_description |-> merged[k].ai_description,
         entity         |-> merged[k].entity,
         icon           |-> merged[k].icon,
         original_count |-> merged[k].original_count,
         Duration       |-> merged[k].end_time - merged[k].start_time,
         Start          |-> format_time(merged[k].start_time),
         End            |-> format_time(merged[k].end_time)]]

----------------------------------------------------------------------------
(* deduplicate_events as a state machine *)

ClassifierIdle ==
    /\ description = <<>>
    /\ cpc = "idle"
    /\ classified = <<>>

FormatIdle ==
    /\ fseconds = 0
    /\ fpc = "idle"
    /\ display = <<>>

PairIdle ==
    /\ calls = <<>>
    /\ heap = <<>>

BatchIdle ==
    /\ household_id = ""
    /\ days = <<>>
    /\ files = {}
    /\ bpc = "idle"
    /\ day_idx = 0
    /\ video_id = 0
    /\ all_chapters = <<>>
    /\ api_calls = <<>>
    /\ returned = <<>>

Init ==
    /\ df \in Frames
    /\ time_threshold \in Thresholds
    /\ pc = "start"
    /\ sorted_df = <<>>
    /\ i = 0
    /\ current_event = None
    /\ merged_events = <<>>
    /\ result = <<>>
    /\ ClassifierIdle
    /\ FormatIdle
    /\ PairIdle
    /\ BatchIdle

\* lines 32-33: an empty frame is returned as it is
ReturnEmpty ==
    /\ pc = "start"
    /\ df = <<>>
    /\ result' = df
    /\ pc' = "done"
    /\ UNCHANGED <<df, time_threshold, sorted_df, i, current_event,
                   merged_events, classifyVars, formatVars, pairVars,
                   batchVars>>

\* Mutant of SortAndReset: df.sort_values(..., inplace=True) reorders the
\* caller's frame
SortAndResetInPlace ==
    /\ pc = "start"
    /\ df # <<>>
    /\ df' \in SortValues(df)
    /\ sorted_df' = df'
    /\ merged_events' = <<>>
    /\ current_event' = None
    /\ i' = 0
    /\ pc' = "loop"
    /\ UNCHANGED <<time_threshold, result, classifyVars, formatVars,
                   pairVars, batchVars>>

\* lines 36-39
SortAndReset ==
    /\ pc = "start"
    /\ df # <<>>
    /\ sorted_df' \in SortValues(df)
    /\ merged_events' = <<>>
    /\ current_event' = None
    /\ i' = 0
    /\ pc' = "loop"
    /\ UNCHANGED <<df, time_threshold, result, classifyVars, formatVars,
                   pairVars, batchVars>>

\* lines 41-71: the loop body on the next row
IterRow ==
    /\ pc = "loop"
    /\ i < Len(sorted_df)
    /\ LET next == LoopBody(current_event, merged_events,
                            sorted_df[i + 1], time_threshold)
       IN  /\ current_event' = next[1]
           /\ merged_events' = next[2]
    /\ i' = i + 1
    /\ UNCHANGED <<df, time_threshold, pc, sorted_df, result, classifyVars,
                   formatVars, pairVars, batchVars>>

\* lines 73-91: the loop is exhausted
Finish ==
    /\ pc = "loop"
    /\ i = Len(sorted_df)
    /\ merged_events' = Flush(current_event, merged_events)
    /\ result' = ResultFrame(merged_events')
    /\ pc' = "done"
    /\ UNCHANGED <<df, time_threshold, sorted_df, i, current_event,
                   classifyVars, formatVars, pairVars, batchVars>>

Next == ReturnEmpty \/ SortAndReset \/ IterRow \/ Finish

Spec == Init /\ [][Next]_vars

----------------------------------------------------------------------------
(* deduplicate_events as a function: the set of frames a call can return *)

RECURSIVE FoldRows(_, _, _, _, _)
FoldRows(rows, k, cur, merged, threshold) ==
    IF k > Len(rows) THEN Flush(cur, merged)
    ELSE LET next == LoopBody(cur, merged, rows[k], threshold)
         IN  FoldRows(rows, k + 1, next[1], next[2], threshold)

deduplicate_events(frame, threshold) ==
    IF frame = <<>> THEN {frame}
    ELSE {ResultFrame(FoldRows(rows, 1, None, <<>>, threshold)) :
            rows \in SortValues(frame)}

----------------------------------------------------------------------------
(* identify_entity called on its own *)

FragWhite == <<"w","h","i","t","e"," ">>

FragBlackJacketUpper == <<"B","L","A","C","K"," ","J","A","C","K","E","T">>

FragSpace == <<" ">>

Fragments ==
    {KwBlackJacket, KwPlate, KwMan, KwHoodie, KwBag, KwPhoneCase,
     FragWhite, FragBlackJacketUpper, FragSpace}

RECURSIVE Concats(_)
Concats(n) ==
    IF n = 0 THEN {<<>>}
    ELSE Concats(n - 1) \cup {d \o f : d \in Concats(n - 1), f \in Fragments}

\* every text made of at most MaxFrags fragments
Descriptions == Concats(MaxFrags)

DedupIdle ==
    /\ df = <<>>
    /\ time_threshold = 0
    /\ pc = "idle"
    /\ sorted_df = <<>>
    /\ i = 0
    /\ current_event = None
    /\ merged_events = <<>>
    /\ result = <<>>

InitClassify ==
    /\ description \in Descriptions
    /\ cpc = "call"
    /\ classified = <<>>
    /\ DedupIdle
    /\ FormatIdle
    /\ PairIdle
    /\ BatchIdle

Classify ==
    /\ cpc = "call"
    /\ classified' = identify_entity(description)
    /\ cpc' = "done"
    /\ UNCHANGED <<description, dedupVars, formatVars, pairVars, batchVars>>

NextClassify == Classify

SpecClassify == InitClassify /\ [][NextClassify]_vars

----------------------------------------------------------------------------
(* format_time called on its own, on whole seconds *)

InitFormat ==
    /\ fseconds \in 0..MaxSeconds
    /\ fpc = "call"
    /\ display = <<>>
    /\ DedupIdle
    /\ ClassifierIdle
    /\ PairIdle
    /\ BatchIdle

FormatTime ==
    /\ fpc = "call"
    /\ display' = format_time(fseconds)
    /\ fpc' = "done"
    /\ UNCHANGED <<fseconds, dedupVars, classifyVars, pairVars, batchVars>>

NextFormat == FormatTime

SpecFormat == InitFormat /\ [][NextFormat]_vars

----------------------------------------------------------------------------
(* Two calls of deduplicate_events on two frames, their steps interleaved.  *)
(* Each call has its own locals; a list object lives in the heap under the  *)
(* reference the call's line 38 bound to merged_events.                     *)

Calls == {1, 2}

NoList == 0

PairDescriptions == {DescStaffMan, DescWalking}

PairSegments ==
    [start_time : 0..MaxPairTime, end_time : 0..MaxPairTime,
     ai_description : PairDescriptions]

PairFrames == UNION {[1..n -> PairSegments] : n \in 0..MaxPairSegs}

\* Mutant of NewList: merged_events is one list shared by all calls (a
\* module-level list, or a mutable default argument)
NewListShared(c) == 1

\* line 38: merged_events = [] makes a list of the call's own
NewList(c) == c

InitPair ==
    /\ calls \in [Calls ->
                    [df : PairFrames, time_threshold : 0..MaxPairTime,
                     pc : {"start"}, sorted_df : {<<>>}, i : {0},
                     current_event : {None}, merged_events : {NoList},
                     result : {<<>>}]]
    /\ heap = [r \in Calls |-> <<>>]
    /\ DedupIdle
    /\ ClassifierIdle
    /\ FormatIdle
    /\ BatchIdle

\* lines 32-33
PairReturnEmpty(c) ==
    /\ calls[c].pc = "start"
    /\ calls[c].df = <<>>
    /\ calls' = [calls EXCEPT ![c].result = calls[c].df, ![c].pc = "done"]
    /\ UNCHANGED <<heap, dedupVars, classifyVars, formatVars, batchVars>>

\* lines 36-39
PairSortAndReset(c) ==
    /\ calls[c].pc = "start"
    /\ calls[c].df # <<>>
    /\ \E rows \in SortValues(calls[c].df) :
          calls' = [calls EXCEPT ![c].sorted_df = rows,
                                 ![c].merged_events = NewList(c),
                                 ![c].current_event = None,
                                 ![c].i = 0,
                                 ![c].pc = "loop"]
    /\ heap' = [heap EXCEPT ![NewList(c)] = <<>>]
    /\ UNCHANGED <<dedupVars, classifyVars, formatVars, batchVars>>

\* lines 41-71
PairIterRow(c) ==
    /\ calls[c].pc = "loop"
    /\ calls[c].i < Len(calls[c].sorted_df)
    /\ LET next == LoopBody(calls[c].current_event,
                            heap[calls[c].merged_events],
                            calls[c].sorted_df[calls[c].i + 1],
                            calls[c].time_threshold)
       IN  /\ calls' = [calls EXCEPT ![c].current_event = next[1],
                                     ![c].i = calls[c].i + 1]
           /\ heap' = [heap EXCEPT ![calls[c].merged_events] = next[2]]
    /\ UNCHANGED <<dedupVars, classifyVars, formatVars, batchVars>>

\* lines 73-91
PairFinish(c) ==
    /\ calls[c].pc = "loop"
    /\ calls[c].i = Len(calls[c].sorted_df)
    /\ LET merged == Flush(calls[c].current_event,
                           heap[calls[c].merged_events])
       IN  /\ heap' = [heap EXCEPT ![calls[c].merged_events] = merged]
           /\ calls' = [calls EXCEPT ![c].result = ResultFrame(merged),
                                     ![c].pc = "done"]
    /\ UNCHANGED <<dedupVars, classifyVars, formatVars, batchVars>>

NextPair ==
    \E c \in Calls :
        \/ PairReturnEmpty(c)
        \/ PairSortAndReset(c)
        \/ PairIterRow(c)
        \/ PairFinish(c)

SpecPair == InitPair /\ [][NextPair]_vars

----------------------------------------------------------------------------
(* process_household of src/batch_analysis.py, with upload_video and       *)
(* generate_chapters. The Twelve Labs client is the environment: a call on *)
(* it raises or returns, and which of the two is drawn when the call is    *)
(* made. The console output, the two-second sleep, and the chapter_summary *)
(* and timestamp entries of a chapter dictionary are left out.             *)

\* None, and every other video id that `not video_id` takes for missing
NoVideoId == 0

\* chapter.chapter_title of a chapter object that has no such attribute
NoAttribute == "AttributeError"

Households == {"A", "B"}

\* a weekday and a weekend day
DayNumbers == {2, 3}

DayLists == UNION {[1..n -> DayNumbers] : n \in 0..MaxDays}

\* the chapter objects of a summarize result: one in the afternoon, and
\* one that lacks its title
ApiChapters ==
    {[start |-> 45000, end |-> 45090, chapter_title |-> "Cooking"],
     [start |-> 0, end |-> 90, chapter_title |-> NoAttribute]}

\* what client.task.create / task.wait_for_done can do: raise, or give a
\* task whose video_id is None or the id of the new video
UploadOutcomes(fresh) ==
    {[raises |-> TRUE, video_id |-> NoVideoId],
     [raises |-> FALSE, video_id |-> NoVideoId],
     [raises |-> FALSE, video_id |-> fresh]}

\* what client.summarize can do: raise, or give a result with chapters
SummarizeOutcomes ==
    {[raises |-> TRUE, chapters |-> <<>>]}
        \cup {[raises |-> FALSE, chapters |-> cs] :
                cs \in UNION {[1..n -> ApiChapters] : n \in 0..MaxChapters}}

\* Mutant of upload_video: no try/except around the client calls
upload_video_no_except(task) ==
    [raised |-> task.raises, value |-> task.video_id]

\* upload_video, lines 76-96: the id of the indexed video, or None when a
\* client call raised; no exception leaves the function
upload_video(task) ==
    [raised |-> FALSE,
     value  |-> IF task.raises THEN NoVideoId ELSE task.video_id]

\* lines 125-159: the dictionary made for the i-th chapter
ChapterData(chapter, n, vid, hid, day_number) ==
    LET hour == chapter.start \div 3600
    IN  [household_id     |-> hid,
         day_number       |-> day_number,
         day_type         |-> IF day_number \in {1, 2} THEN "weekday"
                              ELSE "weekend",
         video_id         |-> vid,
         chapter_number   |-> n,
         start_time       |-> chapter.start,
         end_time         |-> chapter.end,
         duration_seconds |-> chapter.end - chapter.start,
         time_of_day      |-> IF 6 <= hour /\ hour < 12 THEN "morning"
                              ELSE IF 12 <= hour /\ hour < 18 THEN "afternoon"
                              ELSE IF 18 <= hour /\ hour < 24 THEN "evening"
                              ELSE "night",
         time_range       |-> Format02d(chapter.start \div 60) \o <<":">>
                                \o Format02d(chapter.start % 60)
                                \o <<" ", "-", " ">>
                                \o Format02d(chapter.end \div 60) \o <<":">>
                                \o Format02d(chapter.end % 60),
         chapter_title    |-> chapter.chapter_title]

\* the chapters before the first one whose chapter_title access raises
RECURSIVE ChaptersBuilt(_, _, _, _, _)
ChaptersBuilt(chapters, n, vid, hid, day_number) ==
    IF n > Len(chapters) \/ chapters[n].chapter_title = NoAttribute
    THEN <<>>
    ELSE <<ChapterData(chapters[n], n, vid, hid, day_number)>>
            \o ChaptersBuilt(chapters, n + 1, vid, hid, day_number)

\* Mutant of generate_chapters: the except branch returns chapters_data,
\* the chapters built before the exception
generate_chapters_partial(summary, vid, hid, day_number) ==
    [raised |-> FALSE,
     value  |-> IF summary.raises THEN <<>>
                ELSE ChaptersBuilt(summary.chapters, 1, vid, hid, day_number)]

\* generate_chapters, lines 113-171: the chapter dictionaries, or [] when
\* the client call or the building of a dictionary raised; no exception
\* leaves the function
generate_chapters(summary, vid, hid, day_number) ==
    [raised |-> FALSE,
     value  |-> IF summary.raises
                   \/ \E k \in 1..Len(summary.chapters) :
                         summary.chapters[k].chapter_title = NoAttribute
                THEN <<>>
                ELSE ChaptersBuilt(summary.chapters, 1, vid, hid, day_number)]

\* the id the service gives the next uploaded video
FreshVideoId ==
    1 + Cardinality({k \in 1..Len(api_calls) :
                        /\ api_calls[k].op = "create"
                        /\ api_calls[k].video_id # NoVideoId})

InitBatch ==
    /\ household_id \in Households
    /\ days \in DayLists
    /\ files \in SUBSET DayNumbers
    /\ bpc = "loop"
    /\ day_idx = 0
    /\ video_id = NoVideoId
    /\ all_chapters = <<>>
    /\ api_calls = <<>>
    /\ returned = <<>>
    /\ DedupIdle
    /\ ClassifierIdle
    /\ FormatIdle
    /\ PairIdle

\* lines 192-200: the day's video file does not exist
SkipMissing ==
    /\ bpc = "loop"
    /\ day_idx < Len(days)
    /\ days[day_idx + 1] \notin files
    /\ day_idx' = day_idx + 1
    /\ UNCHANGED <<household_id, days, files, bpc, video_id, all_chapters,
                   api_calls, returned, dedupVars, classifyVars, formatVars,
                   pairVars>>

\* lines 192-207: the file exists and upload_video is called
Upload ==
    /\ bpc = "loop"
    /\ day_idx < Len(days)
    /\ days[day_idx + 1] \in files
    /\ \E task \in UploadOutcomes(FreshVideoId) :
          LET r == upload_video(task)
          IN  /\ api_calls' = Append(api_calls,
                                 [op       |-> "create",
                                  idx      |-> day_idx + 1,
                                  day      |-> days[day_idx + 1],
                                  video_id |-> task.video_id,
                                  raises   |-> task.raises,
                                  chapters |-> <<>>])
              /\ IF r.raised
                 THEN /\ bpc' = "raised"
                      /\ UNCHANGED <<video_id, day_idx>>
                 ELSE /\ video_id' = r.value
                      /\ IF r.value = NoVideoId
                         THEN /\ day_idx' = day_idx + 1
                              /\ bpc' = "loop"
                         ELSE /\ day_idx' = day_idx
                              /\ bpc' = "generate"
    /\ UNCHANGED <<household_id, days, files, all_chapters, returned,
                   dedupVars, classifyVars, formatVars, pairVars>>

\* lines 209-214: generate_chapters is called and its list appended
Generate ==
    /\ bpc = "generate"
    /\ \E summary \in SummarizeOutcomes :
          LET r == generate_chapters(summary, video_id, household_id,
                                     days[day_idx + 1])
          IN  /\ api_calls' = Append(api_calls,
                                 [op       |-> "summarize",
                                  idx      |-> day_idx + 1,
                                  day      |-> days[day_idx + 1],
                                  video_id |-> video_id,
                                  raises   |-> summary.raises,
                                  chapters |-> summary.chapters])
              /\ IF r.raised
                 THEN /\ bpc' = "raised"
                      /\ UNCHANGED <<all_chapters, day_idx>>
                 ELSE /\ all_chapters' = all_chapters \o r.value
                      /\ day_idx' = day_idx + 1
                      /\ bpc' = "loop"
    /\ UNCHANGED <<household_id, days, files, video_id, returned, dedupVars,
                   classifyVars, formatVars, pairVars>>

\* line 216
ReturnChapters ==
    /\ bpc = "loop"
    /\ day_idx = Len(days)
    /\ returned' = all_chapters
    /\ bpc' = "done"
    /\ UNCHANGED <<household_id, days, files, day_idx, video_id,
                   all_chapters, api_calls, dedupVars, classifyVars,
                   formatVars, pairVars>>

NextBatch == SkipMissing \/ Upload \/ Generate \/ ReturnChapters

SpecBatch == InitBatch /\ [][NextBatch]_vars

----------------------------------------------------------------------------
(* Vocabulary of the properties *)

Returned == pc = "done"

Valid(seg) == seg.end_time >= seg.start_time

EntityLabel(seg) == EntityOf[seg.ai_description][1]

RECURSIVE SumCounts(_)
SumCounts(events) ==
    IF events = <<>> THEN 0
    ELSE events[1].original_count + SumCounts(Tail(events))

\* index in the sorted rows at which the run of event j begins, if the events
\* before it are runs of the lengths their original_count says
RunStart(events, j) == 1 + SumCounts(SubSeq(events, 1, j - 1))

RunEnd(events, j) == SumCounts(SubSeq(events, 1, j))

RECURSIVE JoinRun(_, _, _)
JoinRun(rows, a, b) ==
    IF a >= b THEN rows[a].ai_description
    ELSE JoinRun(rows, a, b - 1) \o <<" ", "|", " ">> \o rows[b].ai_description

Occurrences(rows, seg) == Cardinality({k \in 1..Len(rows) : rows[k] = seg})

SameRows(rows1, rows2) ==
    /\ Len(rows1) = Len(rows2)
    /\ \A k \in 1..Len(rows1) :
          Occurrences(rows1, rows1[k]) = Occurrences(rows2, rows1[k])

StartsNonDecreasing(rows) ==
    \A a, b \in 1..Len(rows) : a < b => rows[a].start_time <= rows[b].start_time

----------------------------------------------------------------------------
(* Properties of deduplicate_events *)

\* C1: when the merge pass has returned, the original_count values of the
\* returned events add up to the number of input segments (0 for an empty
\* input), for every input and every threshold.
C1_PartitionSum == Returned => SumCounts(result) = Len(df)

\* a three-segment input that came back as a merged pair and a singleton
C1_Witness ==
    /\ Returned
    /\ Len(df) = 3
    /\ Len(result) = 2
    /\ result[1].original_count = 2

\* C2: the returned events, in order, are consecutive runs of the sorted
\* input: the sorted rows are the input rows reordered by start_time, every
\* original_count is at least 1, the runs cover rows 1..N without gap or
\* overlap, and each event carries the first start_time and the joined
\* descriptions of exactly the rows of its run.
C2_RunsPartitionInput ==
    Returned =>
        /\ SameRows(sorted_df, df)
        /\ StartsNonDecreasing(sorted_df)
        /\ \A j \in 1..Len(result) : result[j].original_count >= 1
        /\ Len(result) > 0 => RunEnd(result, Len(result)) = Len(df)
        /\ Len(result) = 0 => Len(df) = 0
        /\ \A j \in 1..Len(result) :
              /\ RunEnd(result, j) <= Len(sorted_df)
              /\ result[j].start_time
                    = sorted_df[RunStart(result, j)].start_time
              /\ result[j].ai_description
                    = JoinRun(sorted_df, RunStart(result, j), RunEnd(result, j))

\* an unsorted three-segment input returned as a singleton then a pair
C2_Witness ==
    /\ Returned
    /\ Len(df) = 3
    /\ df[1].start_time > df[3].start_time
    /\ Len(result) = 2
    /\ result[1].original_count = 1
    /\ result[2].original_count = 2
    /\ result[2].ai_description
          = sorted_df[2].ai_description \o <<" ", "|", " ">>
              \o sorted_df[3].ai_description
    /\ sorted_df[2].ai_description # sorted_df[3].ai_description

\* C3: the start_time values of the returned events are non-decreasing in
\* output order, whether or not the input was sorted.
C3_OutputOrdered == Returned => StartsNonDecreasing(result)

\* an input given in decreasing start_time order, returned as three events
C3_Witness ==
    /\ Returned
    /\ Len(df) = 3
    /\ df[1].start_time > df[2].start_time
    /\ df[2].start_time > df[3].start_time
    /\ Len(result) = 3

\* C4: every sorted row classified Unknown is returned as an event of its
\* own, with original_count 1 and the row's own times and description, and
\* no returned event with original_count > 1 has entity Unknown.
C4_UnknownIsolation ==
    Returned =>
        /\ \A k \in 1..Len(sorted_df) :
              EntityLabel(sorted_df[k]) = "Unknown" =>
                 \E j \in 1..Len(result) :
                    /\ RunStart(result, j) = k
                    /\ result[j].original_count = 1
                    /\ result[j].entity = "Unknown"
                    /\ result[j].start_time = sorted_df[k].start_time
                    /\ result[j].end_time = sorted_df[k].end_time
                    /\ result[j].ai_description = sorted_df[k].ai_description
        /\ \A j \in 1..Len(result) :
              result[j].original_count > 1 => result[j].entity # "Unknown"

\* three overlapping Unknown rows under the widest threshold, three events
C4_Witness ==
    /\ Returned
    /\ Len(sorted_df) = 3
    /\ time_threshold = MaxThreshold
    /\ \A k \in 1..3 : EntityLabel(sorted_df[k]) = "Unknown"
    /\ sorted_df[2].start_time < sorted_df[1].end_time
    /\ sorted_df[3].start_time = sorted_df[2].end_time
    /\ Len(result) = 3

\* the accumulator a row opens: the row's own fields, its own classification
\* and original_count 1
Seeded(seg) ==
    [start_time     |-> seg.start_time,
     end_time       |-> seg.end_time,
     ai_description |-> seg.ai_description,
     entity         |-> EntityOf[seg.ai_description][1],
     icon           |-> EntityOf[seg.ai_description][2],
     original_count |-> 1]

\* C5: in every step that processes a row while an accumulator is open, the
\* row is merged (nothing emitted, original_count + 1, start_time and entity
\* kept) if and only if its entity equals the accumulator's, its entity is
\* not Unknown and its start_time minus the accumulator's end_time is below
\* the threshold; otherwise the accumulator is appended unchanged to the
\* emitted events and the new accumulator is the row itself with
\* original_count 1.
C5_FoldStepRule ==
    [][(pc = "loop" /\ i' = i + 1 /\ current_event # <<>>) =>
          LET seg == sorted_df[i + 1]
              acc == current_event[1]
              gap == seg.start_time - acc.end_time
          IN  IF /\ EntityLabel(seg) = acc.entity
                 /\ EntityLabel(seg) # "Unknown"
                 /\ gap < time_threshold
              THEN /\ merged_events' = merged_events
                   /\ Len(current_event') = 1
                   /\ current_event'[1].original_count = acc.original_count + 1
                   /\ current_event'[1].start_time = acc.start_time
                   /\ current_event'[1].entity = acc.entity
                   /\ current_event'[1].icon = acc.icon
              ELSE /\ merged_events' = Append(merged_events, acc)
                   /\ current_event' = <<Seeded(seg)>>]_vars

\* after three rows: two were merged and emitted, the third, of another
\* entity but within the threshold, opened a new accumulator
C5_Witness ==
    /\ pc = "loop"
    /\ i = 3
    /\ Len(merged_events) = 1
    /\ merged_events[1].original_count = 2
    /\ current_event # <<>>
    /\ current_event[1].original_count = 1
    /\ current_event[1].entity # "Unknown"
    /\ current_event[1].start_time - merged_events[1].end_time < time_threshold

\* C6: for an input of two segments of one non-Unknown entity, with gap the
\* later start_time minus the earlier end_time: gap equal to the threshold
\* returns two events of original_count 1, and any gap below the threshold
\* returns one event of original_count 2.
C6_GapBoundaryStrict ==
    (/\ Returned
     /\ Len(sorted_df) = 2
     /\ EntityLabel(sorted_df[1]) = EntityLabel(sorted_df[2])
     /\ EntityLabel(sorted_df[1]) # "Unknown") =>
        LET gap == sorted_df[2].start_time - sorted_df[1].end_time
        IN  /\ gap = time_threshold =>
                 /\ Len(result) = 2
                 /\ result[1].original_count = 1
                 /\ result[2].original_count = 1
            /\ gap < time_threshold =>
                 /\ Len(result) = 1
                 /\ result[1].original_count = 2

\* two Staff segments whose gap is exactly a positive threshold, kept apart
C6_Witness ==
    /\ Returned
    /\ Len(sorted_df) = 2
    /\ EntityLabel(sorted_df[1]) = "Staff (Black Jacket)"
    /\ EntityLabel(sorted_df[2]) = "Staff (Black Jacket)"
    /\ time_threshold > 0
    /\ sorted_df[2].start_time - sorted_df[1].end_time = time_threshold
    /\ Len(result) = 2

\* C7: the merge pass returns no event list for an input in which some
\* segment has end_time < start_time.
C7_InvalidInputRejected ==
    Returned => \A k \in 1..Len(df) : Valid(df[k])

\* C8: an empty input returns an empty sequence, without entering the loop,
\* and an input of exactly one valid segment returns exactly one event, with
\* original_count 1 and the segment's own times and description.
C8_EmptyAndSingle ==
    /\ (df = <<>>) => (pc \in {"start", "done"} /\ result = <<>>)
    /\ (Returned /\ Len(df) = 1 /\ Valid(df[1])) =>
          /\ Len(result) = 1
          /\ result[1].original_count = 1
          /\ result[1].start_time = df[1].start_time
          /\ result[1].end_time = df[1].end_time
          /\ result[1].ai_description = df[1].ai_description

\* a single valid segment of positive length has been returned
C8_Witness ==
    /\ Returned
    /\ Len(df) = 1
    /\ df[1].end_time > df[1].start_time
    /\ Len(result) = 1

DistinctStarts(rows) ==
    \A a, b \in 1..Len(rows) : a # b => rows[a].start_time # rows[b].start_time

Permuted(rows, p) == [k \in 1..Len(rows) |-> rows[p[k]]]

\* C9: when the input's start_time values are pairwise distinct, a call on
\* any permutation of the input can return only the frame this call
\* returned.
C9_PermutationInvariance ==
    (Returned /\ DistinctStarts(df)) =>
        \A p \in Permutations(1..Len(df)) :
            deduplicate_events(Permuted(df, p), time_threshold) = {result}

\* an input in decreasing start_time order with a merge in its result
C9_Witness ==
    /\ Returned
    /\ Len(df) = 3
    /\ df[1].start_time > df[2].start_time
    /\ df[2].start_time > df[3].start_time
    /\ Len(result) = 2

----------------------------------------------------------------------------
(* Properties of identify_entity *)

Classified == cpc = "done"

\* the three rules as the rule table states them, on the lower-cased,
\* trimmed text
Rule1(norm) ==
    Contains(norm, KwBlackJacket)
        /\ (Contains(norm, KwPlate) \/ Contains(norm, KwMan))

Rule2(norm) == Contains(norm, KwHoodie) /\ Contains(norm, KwBag)

Rule3(norm) == Contains(norm, KwPhoneCase)

\* C10: identify_entity returns the label of the first rule that matches,
\* in the order jacket rule, hoodie rule, phone-case rule, else Unknown; so
\* a text matching the jacket rule and another rule is Staff, and a text
\* matching the hoodie and phone-case rules but not the jacket rule is
\* Delivery.
C10_RuleTable ==
    Classified =>
        LET norm == normalize_text(description)
            r1 == Rule1(norm)
            r2 == Rule2(norm)
            r3 == Rule3(norm)
        IN  /\ classified[1] =
                  IF r1 THEN "Staff (Black Jacket)"
                  ELSE IF r2 THEN "Delivery (Hoodie)"
                  ELSE IF r3 THEN "Visitor (Phone)"
                  ELSE "Unknown"
            /\ (r1 /\ (r2 \/ r3)) => classified[1] = "Staff (Black Jacket)"
            /\ (r2 /\ r3 /\ ~r1) => classified[1] = "Delivery (Hoodie)"

\* a text that matches both the jacket rule and the hoodie rule, the jacket
\* rule only after lower-casing, has been classified
C10_Witness ==
    /\ Classified
    /\ classified[1] = "Staff (Black Jacket)"
    /\ ~Contains(description, KwBlackJacket)
    /\ Rule2(normalize_text(description))

\* C11: identify_entity answers every text, the empty one included: what a
\* completed call has returned is exactly one of the four (label, icon)
\* pairs, and for a text matching none of the three rules it is Unknown.
C11_ClassifierTotal ==
    Classified =>
        /\ classified \in Labels
        /\ Cardinality({l \in Labels : l[1] = classified[1]}) = 1
        /\ LET norm == normalize_text(description)
           IN  (~Rule1(norm) /\ ~Rule2(norm) /\ ~Rule3(norm))
                  => classified = <<"Unknown", "icon:question">>

\* the empty text has been classified, as Unknown
C11_Witness ==
    /\ Classified
    /\ description = <<>>
    /\ classified[1] = "Unknown"

\* the classifier with the hoodie rule written without the "white bag" test
BagOnlyClassifier(text) ==
    LET desc == normalize_text(text)
    IN  IF Contains(desc, KwBlackJacket)
           /\ (Contains(desc, KwPlate) \/ Contains(desc, KwMan))
        THEN Staff
        ELSE IF Contains(desc, KwHoodie) /\ Contains(desc, KwBag)
        THEN Delivery
        ELSE IF Contains(desc, KwPhoneCase)
        THEN Visitor
        ELSE Unknown

\* C23: what identify_entity returns for a text, label and icon, is what the
\* classifier with the hoodie rule written as hoodie and "bag" returns for
\* it; a text that contains "white bag" contains "bag".
C23_WhiteBagRedundant ==
    Classified =>
        /\ classified = BagOnlyClassifier(description)
        /\ Contains(normalize_text(description), KwWhiteBag)
              => Contains(normalize_text(description), KwBag)

\* a hoodie text with "white bag" in it has been classified, as Delivery
C23_Witness ==
    /\ Classified
    /\ Contains(normalize_text(description), KwHoodie)
    /\ Contains(normalize_text(description), KwWhiteBag)
    /\ classified = <<"Delivery (Hoodie)", "icon:truck">>

\* C12: no step of the merge pass changes the caller's segment sequence: the
\* same segments, in the same order, with the same start_time, end_time and
\* description, before and after every step up to the return.
C12_InputNotMutated == [][df' = df]_vars

\* a pass has returned for an unsorted input: its local copy was reordered
\* and two of its rows were merged into one event with a joined description
C12_Witness ==
    /\ Returned
    /\ Len(df) = 3
    /\ sorted_df # df
    /\ Len(result) = 2
    /\ \E j \in 1..2 :
          /\ result[j].original_count = 2
          /\ \A k \in 1..3 : result[j].ai_description # df[k].ai_description

RECURSIVE MaxEndOver(_, _, _)
MaxEndOver(rows, a, b) ==
    IF a >= b THEN rows[a].end_time
    ELSE LET rest == MaxEndOver(rows, a, b - 1)
         IN  IF rows[b].end_time > rest THEN rows[b].end_time ELSE rest

\* a step of the loop that merged the row into the open accumulator
MergeStep ==
    /\ pc = "loop"
    /\ i' = i + 1
    /\ current_event # <<>>
    /\ merged_events' = merged_events
    /\ current_event'[1].original_count = current_event[1].original_count + 1

\* C13: every returned event's end_time is the largest end_time among the
\* sorted rows of its run, and no merge step lowers the open accumulator's
\* end_time.
C13_EndIsRunningMax ==
    /\ [](Returned =>
            \A j \in 1..Len(result) :
                result[j].end_time
                    = MaxEndOver(sorted_df, RunStart(result, j),
                                 RunEnd(result, j)))
    /\ [][MergeStep =>
            current_event'[1].end_time >= current_event[1].end_time]_vars

\* a returned event of two rows whose second row ends before the first
C13_Witness ==
    /\ Returned
    /\ Len(sorted_df) = 2
    /\ Len(result) = 1
    /\ sorted_df[2].end_time < sorted_df[1].end_time
    /\ result[1].end_time = sorted_df[1].end_time

\* C14: every returned event's start_time is the start_time of the first
\* sorted row of its run, and no row of the run starts earlier.
C14_StartIsFirstAndMin ==
    Returned =>
        \A j \in 1..Len(result) :
            /\ result[j].start_time = sorted_df[RunStart(result, j)].start_time
            /\ \A k \in RunStart(result, j)..RunEnd(result, j) :
                  result[j].start_time <= sorted_df[k].start_time
            /\ \E k \in RunStart(result, j)..RunEnd(result, j) :
                  result[j].start_time = sorted_df[k].start_time

\* an event of three rows with three different start_time values
C14_Witness ==
    /\ Returned
    /\ Len(sorted_df) = 3
    /\ Len(result) = 1
    /\ sorted_df[1].start_time < sorted_df[2].start_time
    /\ sorted_df[2].start_time < sorted_df[3].start_time
    /\ result[1].start_time = sorted_df[1].start_time

\* C15: every returned event has Duration equal to its end_time minus its
\* start_time, and that Duration is never negative.
C15_DurationNonNegative ==
    Returned =>
        \A j \in 1..Len(result) :
            /\ result[j].Duration = result[j].end_time - result[j].start_time
            /\ result[j].Duration >= 0

RECURSIVE SumLens(_, _, _)
SumLens(rows, a, b) ==
    IF a > b THEN 0
    ELSE SumLens(rows, a, b - 1) + Len(rows[b].ai_description)

\* number of places at which sub occurs in s
CountOccurrences(s, sub) ==
    Cardinality({k \in 0..(Len(s) - Len(sub)) :
                    SubSeq(s, k + 1, k + Len(sub)) = sub})

\* C16: every returned event's description is the descriptions of the rows
\* of its run, unmodified and in sorted order, joined by " | ": a singleton
\* has exactly its row's description, and an event of k rows is longer than
\* its rows' descriptions together by exactly k - 1 delimiters, which are
\* the only occurrences of " | " in it when no row contains one.
C16_DescriptionJoined ==
    Returned =>
        \A j \in 1..Len(result) :
            LET a == RunStart(result, j)
                b == RunEnd(result, j)
                k == result[j].original_count
                text == result[j].ai_description
            IN  /\ text = JoinRun(sorted_df, a, b)
                /\ k = 1 => text = sorted_df[a].ai_description
                /\ Len(text) = SumLens(sorted_df, a, b) + 3 * (k - 1)
                /\ (\A m \in a..b :
                       CountOccurrences(sorted_df[m].ai_description,
                                        <<" ", "|", " ">>) = 0)
                      => CountOccurrences(text, <<" ", "|", " ">>) = k - 1

\* an event of three rows whose first two descriptions differ
C16_Witness ==
    /\ Returned
    /\ Len(sorted_df) = 3
    /\ Len(result) = 1
    /\ sorted_df[1].ai_description # sorted_df[2].ai_description
    /\ CountOccurrences(result[1].ai_description, <<" ", "|", " ">>) = 2

\* C17: every returned event's entity and icon are the pair identify_entity
\* gives for the description of the first sorted row of its run, and every
\* row of the run classifies to that same entity, however long the run.
C17_EntityOfFirst ==
    Returned =>
        \A j \in 1..Len(result) :
            LET a == RunStart(result, j)
                b == RunEnd(result, j)
            IN  /\ <<result[j].entity, result[j].icon>>
                      = identify_entity(sorted_df[a].ai_description)
                /\ \A k \in a..b : EntityLabel(sorted_df[k]) = result[j].entity

\* a chain of three rows, not all with the same description, in one event
C17_Witness ==
    /\ Returned
    /\ Len(sorted_df) = 3
    /\ Len(result) = 1
    /\ result[1].original_count = 3
    /\ sorted_df[1].ai_description # sorted_df[3].ai_description
    /\ result[1].entity = "Staff (Black Jacket)"
    /\ result[1].icon = "icon:office-worker"

\* C20: in every step that processes a row while an accumulator is open, a
\* row of the accumulator's entity, not Unknown, whose start_time minus the
\* largest end_time of the rows already in the accumulator is below the
\* threshold is merged, whatever the end_time of the row just before it.
C20_GapAgainstMergedSpan ==
    [][(pc = "loop" /\ i' = i + 1 /\ current_event # <<>>) =>
          LET seg == sorted_df[i + 1]
              acc == current_event[1]
              span == MaxEndOver(sorted_df, i - acc.original_count + 1, i)
          IN  (/\ EntityLabel(seg) = acc.entity
               /\ EntityLabel(seg) # "Unknown"
               /\ seg.start_time - span < time_threshold) =>
                 /\ merged_events' = merged_events
                 /\ current_event'[1].original_count = acc.original_count + 1
                 /\ current_event'[1].start_time = acc.start_time]_vars

\* a long row, a short row inside it and a third row that is within the
\* threshold of the long row's end but not of the short row's end, all
\* three in one accumulator
C20_Witness ==
    /\ pc = "loop"
    /\ i = 3
    /\ merged_events = <<>>
    /\ current_event # <<>>
    /\ current_event[1].original_count = 3
    /\ sorted_df[2].end_time < sorted_df[1].end_time
    /\ sorted_df[3].start_time - sorted_df[2].end_time >= time_threshold
    /\ sorted_df[3].start_time - sorted_df[1].end_time < time_threshold

\* C21: in every step that processes a row while an accumulator is open, a
\* row of the accumulator's entity, not Unknown, that starts before the
\* accumulator ends is merged for every threshold above 0, and the
\* accumulator's end_time becomes the larger of its own end_time and the
\* row's: it stays as it was when the row ends earlier.
C21_OverlapMerges ==
    [][(pc = "loop" /\ i' = i + 1 /\ current_event # <<>>) =>
          LET seg == sorted_df[i + 1]
              acc == current_event[1]
          IN  (/\ EntityLabel(seg) = acc.entity
               /\ EntityLabel(seg) # "Unknown"
               /\ seg.start_time < acc.end_time
               /\ time_threshold > 0) =>
                 /\ merged_events' = merged_events
                 /\ current_event'[1].original_count = acc.original_count + 1
                 /\ current_event'[1].end_time
                       = (IF seg.end_time > acc.end_time
                          THEN seg.end_time ELSE acc.end_time)
                 /\ current_event'[1].end_time >= acc.end_time]_vars

\* under threshold 1, a row that starts two seconds before the accumulator
\* ends and ends before it has been merged, and the end_time did not shrink
C21_Witness ==
    /\ pc = "loop"
    /\ i = 2
    /\ time_threshold = 1
    /\ merged_events = <<>>
    /\ current_event # <<>>
    /\ current_event[1].original_count = 2
    /\ sorted_df[2].start_time - sorted_df[1].end_time = 0 - 2
    /\ sorted_df[2].end_time < sorted_df[1].end_time
    /\ current_event[1].end_time = sorted_df[1].end_time

\* the rows of frame ordered by start_time, rows with equal start_time kept
\* in the order they have in frame
StableOrder(frame) ==
    LET p == CHOOSE q \in Permutations(1..Len(frame)) :
                \A a, b \in 1..Len(frame) :
                    a < b =>
                       \/ frame[q[a]].start_time < frame[q[b]].start_time
                       \/ /\ frame[q[a]].start_time = frame[q[b]].start_time
                          /\ q[a] < q[b]
    IN  [k \in 1..Len(frame) |-> frame[p[k]]]

\* C22: once the input has been sorted, the rows are in start_time order with
\* rows of equal start_time in their input order, and the returned events
\* (which row seeds each event, the order of the descriptions inside it) are
\* those of the fold over that one order.
C22_SortIsStable ==
    (pc \in {"loop", "done"} /\ df # <<>>) =>
        /\ sorted_df = StableOrder(df)
        /\ Returned =>
              result = ResultFrame(FoldRows(StableOrder(df), 1, None, <<>>,
                                            time_threshold))

\* C24: current_event is either None or one open accumulator; during the
\* loop it is None exactly before the first row and, once open, an
\* accumulator is open after every later step; a step never removes or
\* changes an event already in merged_events; a step that changes the open
\* accumulator either emits it and opens a new one or changes only its
\* end_time, ai_description and original_count; the step that ends the loop
\* emits the open accumulator once, so that every row is counted once and
\* the last returned event is the accumulator that holds the last row.
C24_AccumulatorMachine ==
    /\ [](/\ current_event = None \/ Len(current_event) = 1
          /\ pc = "loop" => (current_event = None <=> i = 0)
          /\ (Returned /\ df # <<>>) =>
                /\ current_event # None
                /\ merged_events # <<>>
                /\ merged_events[Len(merged_events)] = current_event[1]
                /\ SumCounts(merged_events) = Len(sorted_df)
                /\ RunEnd(result, Len(result)) = Len(sorted_df)
                /\ result[Len(result)].ai_description
                      = current_event[1].ai_description)
    /\ [][/\ current_event # None => current_event' # None
          /\ Len(merged_events') >= Len(merged_events)
          /\ SubSeq(merged_events', 1, Len(merged_events)) = merged_events
          /\ (current_event # None /\ current_event' # current_event) =>
                \/ merged_events' = Append(merged_events, current_event[1])
                \/ /\ merged_events' = merged_events
                   /\ current_event'[1].start_time = current_event[1].start_time
                   /\ current_event'[1].entity = current_event[1].entity
                   /\ current_event'[1].icon = current_event[1].icon
          /\ (pc = "loop" /\ pc' = "done") =>
                merged_events' = Append(merged_events, current_event[1])]_vars

\* a pass over three rows has returned: the first row was emitted when the
\* second arrived, the third was merged into the accumulator the second had
\* opened, and that accumulator was emitted when the loop ended
C24_Witness ==
    /\ Returned
    /\ Len(sorted_df) = 3
    /\ Len(merged_events) = 2
    /\ merged_events[1].original_count = 1
    /\ current_event # <<>>
    /\ current_event[1].original_count = 2
    /\ merged_events[2] = current_event[1]
    /\ current_event[1].end_time = sorted_df[3].end_time
    /\ current_event[1].end_time # sorted_df[2].end_time

\* C25: of any two consecutive returned events, the entities differ, or the
\* later one is Unknown, or the later one starts at least the threshold
\* after the earlier one ends: no two neighbours could still be merged.
C25_MaximallyMerged ==
    Returned =>
        \A j \in 1..(Len(result) - 1) :
            \/ result[j].entity # result[j + 1].entity
            \/ result[j + 1].entity = "Unknown"
            \/ result[j + 1].start_time - result[j].end_time >= time_threshold

\* two returned neighbours of one entity, not Unknown, the first of them
\* merged from two rows, kept apart only by a gap equal to the threshold
C25_Witness ==
    /\ Returned
    /\ time_threshold > 0
    /\ Len(result) = 2
    /\ result[1].original_count = 2
    /\ result[1].entity = result[2].entity
    /\ result[2].entity # "Unknown"
    /\ result[2].start_time - result[1].end_time = time_threshold

\* the runs of events2 are unions of runs of events1: every run of events1
\* lies inside one run of events2
Coarsens(events2, events1) ==
    \A j \in 1..Len(events1) :
        \E m \in 1..Len(events2) :
            /\ RunStart(events2, m) <= RunStart(events1, j)
            /\ RunEnd(events1, j) <= RunEnd(events2, m)

\* C26: for a returned pass and every threshold at least as large as the
\* one it ran with, the pass over the same rows with the larger threshold
\* groups them more coarsely (rows that share an event still share one) and
\* returns no more events.
C26_ThresholdMonotone ==
    (Returned /\ df # <<>>) =>
        \A t2 \in Thresholds :
            t2 >= time_threshold =>
                LET wider == FoldRows(sorted_df, 1, None, <<>>, t2)
                IN  /\ Coarsens(wider, result)
                    /\ Len(wider) <= Len(result)
                    /\ SumCounts(wider) = SumCounts(result)

\* a pass that returned a single row and a merged pair, for rows that the
\* largest threshold puts into one event
C26_Witness ==
    /\ Returned
    /\ time_threshold < MaxThreshold
    /\ Len(sorted_df) = 3
    /\ Len(result) = 2
    /\ result[2].original_count = 2
    /\ Len(FoldRows(sorted_df, 1, None, <<>>, MaxThreshold)) = 1

\* C27: when every input segment has end_time >= start_time, every returned
\* event starts no later and ends no earlier than each sorted row of its
\* run, and so does not end before it starts.
C27_SpanContainment ==
    (Returned /\ \A k \in 1..Len(df) : Valid(df[k])) =>
        \A j \in 1..Len(result) :
            /\ \A k \in RunStart(result, j)..RunEnd(result, j) :
                  /\ result[j].start_time <= sorted_df[k].start_time
                  /\ sorted_df[k].end_time <= result[j].end_time
            /\ result[j].start_time <= result[j].end_time

\* an event of three valid rows, the middle one ending last and the last
\* one starting after the first
C27_Witness ==
    /\ Returned
    /\ \A k \in 1..Len(df) : Valid(df[k])
    /\ Len(sorted_df) = 3
    /\ Len(result) = 1
    /\ sorted_df[1].start_time < sorted_df[3].start_time
    /\ sorted_df[2].end_time > sorted_df[3].end_time
    /\ sorted_df[2].end_time > sorted_df[1].end_time
    /\ result[1].end_time = sorted_df[2].end_time

----------------------------------------------------------------------------
(* Properties of format_time *)

Formatted == fpc = "done"

IsDigit(c) == c \in {"0","1","2","3","4","5","6","7","8","9"}

DigitValue(c) == CHOOSE d \in 0..9 : DigitChars[d + 1] = c

\* the number a string of decimal digits denotes
RECURSIVE ParseDecimal(_)
ParseDecimal(chars) ==
    IF chars = <<>> THEN 0
    ELSE 10 * ParseDecimal(SubSeq(chars, 1, Len(chars) - 1))
            + DigitValue(chars[Len(chars)])

AllDigits(chars) ==
    Len(chars) > 0 /\ \A k \in 1..Len(chars) : IsDigit(chars[k])

\* C18 as stated: the display string of s whole seconds is two digits, a
\* colon and two digits, the first pair denoting s div 60 and the second
\* s mod 60, which is in 0..59, and minutes * 60 + seconds gives s back.
C18_TwoDigitFields ==
    Formatted =>
        /\ Len(display) = 5
        /\ display[3] = ":"
        /\ AllDigits(SubSeq(display, 1, 2))
        /\ AllDigits(SubSeq(display, 4, 5))
        /\ ParseDecimal(SubSeq(display, 1, 2)) = fseconds \div 60
        /\ ParseDecimal(SubSeq(display, 4, 5)) = fseconds % 60
        /\ ParseDecimal(SubSeq(display, 4, 5)) \in 0..59
        /\ ParseDecimal(SubSeq(display, 1, 2)) * 60
              + ParseDecimal(SubSeq(display, 4, 5)) = fseconds

\* C18, amended: the display string of s whole seconds is a minutes field, a
\* colon and a two-digit seconds field; the minutes field is s div 60 in
\* decimal, zero-padded to two digits when s div 60 < 10 and as long as the
\* number needs otherwise (three digits from 6000 seconds on); the seconds
\* field denotes s mod 60, in 0..59; minutes * 60 + seconds gives s back.
C18_DisplayString ==
    Formatted =>
        LET n == Len(display)
            mins == SubSeq(display, 1, n - 3)
            secs == SubSeq(display, n - 1, n)
        IN  /\ n >= 5
            /\ display[n - 2] = ":"
            /\ AllDigits(mins)
            /\ AllDigits(secs)
            /\ ParseDecimal(mins) = fseconds \div 60
            /\ ParseDecimal(secs) = fseconds % 60
            /\ ParseDecimal(secs) \in 0..59
            /\ ParseDecimal(mins) * 60 + ParseDecimal(secs) = fseconds
            /\ fseconds < 6000 => n = 5
            /\ fseconds >= 6000 => (n = 6 /\ mins[1] # "0")
            /\ fseconds < 600 => mins[1] = "0"

\* 100 minutes and 5 seconds has been formatted, as six characters
C18_Witness ==
    /\ Formatted
    /\ fseconds = 6005
    /\ display = <<"1", "0", "0", ":", "0", "5">>

----------------------------------------------------------------------------
(* Properties of two interleaved calls *)

\* C19: however the steps of two calls interleave, a call that has returned
\* has returned a frame it can return when run alone on its input, and a
\* step of one call changes neither the other call's locals (its
\* accumulator and its result among them) nor the other call's list of
\* emitted events.
C19_CallsIndependent ==
    /\ [](\A c \in Calls :
            calls[c].pc = "done" =>
               calls[c].result
                  \in deduplicate_events(calls[c].df, calls[c].time_threshold))
    /\ [][\A c, d \in Calls :
            (c # d /\ calls'[d] # calls[d]) =>
               /\ calls'[c] = calls[c]
               /\ calls[c].merged_events # NoList =>
                     heap'[calls[c].merged_events]
                        = heap[calls[c].merged_events]]_vars

\* the second call ran from start to return, merging two rows, while the
\* first call, on another frame, was in the middle of its loop
C19_Witness ==
    /\ calls[1].pc = "loop"
    /\ calls[1].i = 1
    /\ Len(calls[1].sorted_df) = 2
    /\ calls[1].current_event # None
    /\ calls[2].pc = "done"
    /\ Len(calls[2].result) = 1
    /\ calls[2].result[1].original_count = 2
    /\ calls[1].df # calls[2].df

----------------------------------------------------------------------------
(* Properties of process_household *)

\* positions in api_calls of the calls of one kind made for the k-th day
CallsAt(op, k) ==
    {c \in 1..Len(api_calls) : api_calls[c].op = op /\ api_calls[c].idx = k}

\* the summarize call raised or delivered a chapter that cannot be read
GenerationFailed(call) ==
    \/ call.raises
    \/ \E n \in 1..Len(call.chapters) :
          call.chapters[n].chapter_title = NoAttribute

\* what the k-th day adds to the chapters: a dictionary for each chapter of
\* its summarize result, in order, if there was such a call and it did not
\* fail; nothing otherwise
DayChapters(k) ==
    IF CallsAt("summarize", k) = {} THEN <<>>
    ELSE LET call == api_calls[CHOOSE c \in CallsAt("summarize", k) : TRUE]
         IN  IF GenerationFailed(call) THEN <<>>
             ELSE [n \in 1..Len(call.chapters) |->
                      ChapterData(call.chapters[n], n, call.video_id,
                                  household_id, days[k])]

RECURSIVE ChaptersOfDays(_)
ChaptersOfDays(k) ==
    IF k = 0 THEN <<>> ELSE ChaptersOfDays(k - 1) \o DayChapters(k)

\* C28: process_household never ends with an exception; its client calls are
\* made day by day in the order of the list; chapter generation is called
\* for a day only right after an upload for that day, whose file exists,
\* returned a video id, and with that id; after every day the chapter list
\* is the per-day lists of the days so far joined in order, a day with a
\* missing file, a failed upload or a failed generation adding nothing; and
\* on return every day has been handled (one upload for each day whose file
\* exists, none for the others) and the joined list is what is returned.
C28_BatchFaultIsolation ==
    /\ bpc # "raised"
    /\ \A c, d \in 1..Len(api_calls) :
          c < d => api_calls[c].idx <= api_calls[d].idx
    /\ \A c \in 1..Len(api_calls) :
          api_calls[c].op = "summarize" =>
             /\ api_calls[c].day \in files
             /\ api_calls[c].video_id # NoVideoId
             /\ c > 1
             /\ api_calls[c - 1].op = "create"
             /\ api_calls[c - 1].idx = api_calls[c].idx
             /\ ~api_calls[c - 1].raises
             /\ api_calls[c - 1].video_id = api_calls[c].video_id
    /\ \A k \in 1..Len(days) :
          /\ Cardinality(CallsAt("create", k)) <= 1
          /\ Cardinality(CallsAt("summarize", k)) <= 1
    /\ bpc \in {"loop", "done"} => all_chapters = ChaptersOfDays(day_idx)
    /\ bpc = "done" =>
          /\ day_idx = Len(days)
          /\ returned = ChaptersOfDays(Len(days))
          /\ \A k \in 1..Len(days) :
                /\ days[k] \in files <=> CallsAt("create", k) # {}
                /\ CallsAt("summarize", k) # {} <=>
                      \E c \in CallsAt("create", k) :
                          /\ ~api_calls[c].raises
                          /\ api_calls[c].video_id # NoVideoId

\* a run over two days has returned: the upload of the first day raised, and
\* the two chapters generated for the second day are what was returned
C28_Witness ==
    /\ bpc = "done"
    /\ Len(days) = 2
    /\ \E c \in CallsAt("create", 1) : api_calls[c].raises
    /\ CallsAt("summarize", 1) = {}
    /\ \E c \in CallsAt("summarize", 2) : ~GenerationFailed(api_calls[c])
    /\ Len(returned) = 2
    /\ \A n \in 1..2 :
          /\ returned[n].day_number = days[2]
          /\ returned[n].chapter_number = n

====
